---- MODULE Spec2Model ----
(***************************************************************************)
(* Model of qwantz-daily: the acquisition pipeline of src/src/scraper.py   *)
(* (main, get_current_comic and its helpers) and the summary regeneration  *)
(* of src/src/update_readme.py (get_most_recent_comic, update_readme).     *)
(*                                                                         *)
(* A Python str is a sequence of one-character strings, so that split,     *)
(* rsplit, replace, strip and startswith are computed character by         *)
(* character as the interpreter computes them.                             *)
(***************************************************************************)
EXTENDS Integers, Sequences, FiniteSets, TLC

VARIABLES
    data_exists,  \* whether <project_root>/data exists
    fs,           \* data/: directory name -> (file name -> content)
    readme,       \* <project_root>/README.md
    pc,           \* position of the acquisition entry point
    cwd,          \* name of the date directory main() changed into
    soup,         \* get_current_comic: the fetched page
    comic_data,   \* get_current_comic: the extracted record
    image_data,   \* get_current_comic: the downloaded bytes
    result,       \* how the last acquisition run ended
    steps,        \* the steps the current run executed, in order, with outcome
    runs,         \* acquisition runs started
    runsOn,       \* directory name -> acquisition runs started in it
    summary,      \* how the last update_readme() ended, since the last run
    derived       \* the names derived from comic_data (name-derivation runs)

vars == <<data_exists, fs, readme, pc, cwd, soup, comic_data, image_data,
          result, steps, runs, runsOn, summary, derived>>

-----------------------------------------------------------------------------
(* Bounds *)

\* acquisition runs in one behaviour
MaxRuns == 2

\* length of the image src attribute in the name-derivation runs
MaxSrcLen == 3

-----------------------------------------------------------------------------
(* Python str operations on character sequences *)

\* the largest index of character c in s, 0 when absent (str.rfind + 1)
LastIndexOf(s, c) ==
    LET I == {i \in 1..Len(s) : s[i] = c}
    IN  IF I = {} THEN 0 ELSE CHOOSE i \in I : \A j \in I : j <= i

\* the smallest index of character c in s, 0 when absent (str.find + 1)
FirstIndexOf(s, c) ==
    LET I == {i \in 1..Len(s) : s[i] = c}
    IN  IF I = {} THEN 0 ELSE CHOOSE i \in I : \A j \in I : i <= j

\* s.split(c)[-1]
SplitLast(s, c) == SubSeq(s, LastIndexOf(s, c) + 1, Len(s))

\* s.split(c)[0]
SplitFirst(s, c) ==
    IF FirstIndexOf(s, c) = 0 THEN s ELSE SubSeq(s, 1, FirstIndexOf(s, c) - 1)

\* s.rsplit(c, 1)[0]
RSplitFirst(s, c) ==
    IF LastIndexOf(s, c) = 0 THEN s ELSE SubSeq(s, 1, LastIndexOf(s, c) - 1)

\* s.startswith(p)
StartsWith(s, p) == Len(s) >= Len(p) /\ SubSeq(s, 1, Len(p)) = p

\* s.endswith(p)
EndsWith(s, p) ==
    Len(s) >= Len(p) /\ SubSeq(s, Len(s) - Len(p) + 1, Len(s)) = p

\* s.replace(old, new): every non-overlapping occurrence, left to right
RECURSIVE Replace(_, _, _)
Replace(s, old, new) ==
    IF s = <<>> THEN <<>>
    ELSE IF StartsWith(s, old)
         THEN new \o Replace(SubSeq(s, Len(old) + 1, Len(s)), old, new)
         ELSE <<Head(s)>> \o Replace(Tail(s), old, new)

\* the whitespace characters of the modelled alphabet
Whitespace == {" ", "\n", "\t", "\r"}

\* s.strip()
RECURSIVE LStrip(_)
LStrip(s) ==
    IF s # <<>> /\ Head(s) \in Whitespace THEN LStrip(Tail(s)) ELSE s

RECURSIVE RStrip(_)
RStrip(s) ==
    IF s # <<>> /\ s[Len(s)] \in Whitespace
    THEN RStrip(SubSeq(s, 1, Len(s) - 1)) ELSE s

Strip(s) == RStrip(LStrip(s))

\* the lines of a text file as iteration yields them, line ends kept
RECURSIVE Lines(_)
Lines(s) ==
    IF s = <<>> THEN <<>>
    ELSE IF FirstIndexOf(s, "\n") = 0 THEN <<s>>
         ELSE <<SubSeq(s, 1, FirstIndexOf(s, "\n"))>>
              \o Lines(SubSeq(s, FirstIndexOf(s, "\n") + 1, Len(s)))

-----------------------------------------------------------------------------
(* scraper.py: constants and pure helpers *)

QWANTZ_BASE_URL ==
    <<"h", "t", "t", "p", "s", ":", "/", "/", "w", "w", "w", ".", "q", "w",
      "a", "n", "t", "z", ".", "c", "o", "m", "/">>

INVALID_FILENAME_CHARS ==
    {"/", "\\", "?", "%", "*", ":", "|", "\"", "<", ">", "."}

sanitize_filename(filename) ==
    SelectSeq(filename, LAMBDA char : char \notin INVALID_FILENAME_CHARS)

\* get_file_extension without the query-string split
get_file_extension_noquery(url) == SplitLast(url, ".")

get_file_extension(url) == SplitFirst(SplitLast(url, "."), "?")

\* get_current_comic: image_filename = comic_data['image_url'].split('/')[-1]
image_filename(image_url) == SplitLast(image_url, "/")

\* get_current_comic: base_filename = image_filename.rsplit('.', 1)[0]
base_filename(image_url) == RSplitFirst(image_filename(image_url), ".")

\* get_current_comic: image_path = f"{base_filename}.{file_extension}"
image_path(image_url) ==
    base_filename(image_url) \o <<".">> \o get_file_extension(image_url)

METADATA_SUFFIX ==
    <<"_", "m", "e", "t", "a", "d", "a", "t", "a", ".", "t", "x", "t">>

\* get_current_comic: metadata_path = f"{base_filename}_metadata.txt"
metadata_path(image_url) == base_filename(image_url) \o METADATA_SUFFIX

TITLE_MARKER == <<"T", "i", "t", "l", "e", ":">>

IMAGE_URL_MARKER == <<"I", "m", "a", "g", "e", " ", "U", "R", "L", ":">>

\* get_current_comic: the two lines written to the metadata file
metadata_text(cd) ==
    TITLE_MARKER \o <<" ">> \o cd.title \o <<"\n">>
    \o IMAGE_URL_MARKER \o <<" ">> \o cd.image_url \o <<"\n">>

UNKNOWN_TITLE == <<"u", "n", "k", "n", "o", "w", "n">>


\* the value None, for an optional str
None == [some |-> FALSE, v |-> <<>>]

Some(x) == [some |-> TRUE, v |-> x]

\* comic_data before extraction and after a failed one
NoComic == [ok |-> FALSE, image_url |-> <<>>, title |-> <<>>]

\* soup before the fetch and after a failed one
NoSoup == [ok |-> FALSE, img |-> FALSE, src |-> None, title |-> None]

\* image_data before the download and after a failed one
NoImage == [ok |-> FALSE, bytes |-> <<>>]

\* extract_comic_data(soup): the record, or NoComic for None
extract_comic_data(sp) ==
    IF ~sp.img THEN NoComic
    ELSE IF ~sp.src.some \/ sp.src.v = <<>> THEN NoComic
    ELSE [ok |-> TRUE,
          image_url |-> QWANTZ_BASE_URL \o sp.src.v,
          title |-> IF sp.title.some THEN sp.title.v ELSE UNKNOWN_TITLE]

\* open(path, 'w'/'wb') in a date directory that holds plain files only: a
\* path through a missing subdirectory, or naming a directory, raises OSError
PathWritable(path) == "/" \notin {path[i] : i \in 1..Len(path)}
                      /\ path # <<".">> /\ path # <<".", ".">>

\* the files of a directory with file `path` holding `content`
WriteFile(dir, path, content) == (path :> content) @@ dir

-----------------------------------------------------------------------------
(* scraper.py: the dates datetime.now() may return, and their names *)

Dates == {[y |-> 2023, m |-> 12, d |-> 31],
          [y |-> 2024, m |-> 1, d |-> 2],
          [y |-> 2024, m |-> 1, d |-> 10]}

\* the dates of the modelled acquisition runs
Today == {[y |-> 2024, m |-> 1, d |-> 2], [y |-> 2024, m |-> 1, d |-> 10]}

DigitChar(n) == <<"0", "1", "2", "3", "4", "5", "6", "7", "8", "9">>[n + 1]

\* %m, %d: two digits, zero padded
Pad2(n) == <<DigitChar(n \div 10), DigitChar(n % 10)>>

\* %Y: four digits
Pad4(n) == Pad2(n \div 100) \o Pad2(n % 100)

\* datetime.strftime("%Y-%m-%d")
strftime(dt) == Pad4(dt.y) \o <<"-">> \o Pad2(dt.m) \o <<"-">> \o Pad2(dt.d)

\* chronological order of dates
Earlier(a, b) ==
    \/ a.y < b.y
    \/ a.y = b.y /\ a.m < b.m
    \/ a.y = b.y /\ a.m = b.m /\ a.d < b.d

-----------------------------------------------------------------------------
(* The inputs of an acquisition run *)

SRC_PNG ==
    <<"c", "o", "m", "i", "c", "s", "/", "f", "o", "o", ".", "p", "n", "g">>

SRC_JPG ==
    <<"c", "o", "m", "i", "c", "s", "/", "a", "%", "2", "0", "b", ".", "j",
      "p", "g">>

SRC_SPACE ==
    <<"c", "o", "m", "i", "c", "s", "/", "a", " ", "b", ".", "p", "n", "g",
      "?", "v", "=", "1">>

SRC_NOEXT == <<"c", "o", "m", "i", "c", "s", "/", "f", "o", "o">>

\* the src attributes of an acquisition run: absent, empty, or a path
Srcs == {None, Some(<<>>), Some(SRC_PNG), Some(SRC_JPG), Some(SRC_NOEXT)}

TITLE_PLAIN == <<"A", " ", "T", "i", "t", "l", "e">>

TITLE_MARKED == <<"T", "i", "t", "l", "e", ":", "x">>

TITLE_PADDED == <<" ", "x", " ">>

\* the title attributes of an acquisition run: absent, or a text
Titles == {None, Some(TITLE_MARKED)}

\* the pages the source may serve: without the img element, or with one
Pages == {[ok |-> TRUE, img |-> FALSE, src |-> None, title |-> None]}
         \cup {[ok |-> TRUE, img |-> TRUE, src |-> s, title |-> t] :
                   s \in Srcs, t \in Titles}

\* the bytes the image URL may serve
ImageBytes == {<<"PNG", "1">>, <<"PNG", "2">>}

ImageFile(bytes) == [kind |-> "image", data |-> bytes]

TextFile(text) == [kind |-> "text", data |-> text]

-----------------------------------------------------------------------------
(* scraper.py: main() and get_current_comic(), step by step *)

\* main(): setup_daily_directory() and os.chdir(); os.makedirs may raise
main_begin ==
    /\ pc = "idle"
    /\ runs < MaxRuns
    /\ \E today \in Today, mk_ok \in BOOLEAN :
        LET date == strftime(today) IN
        /\ runs' = runs + 1
        /\ steps' = <<>>
        /\ soup' = NoSoup
        /\ comic_data' = NoComic
        /\ image_data' = NoImage
        /\ summary' = "none"
        /\ IF mk_ok
           THEN /\ data_exists' = TRUE
                /\ fs' = IF date \in DOMAIN fs THEN fs ELSE (date :> <<>>) @@ fs
                /\ cwd' = date
                /\ runsOn' = (date :> (IF date \in DOMAIN runsOn
                                       THEN runsOn[date] + 1 ELSE 1)) @@ runsOn
                /\ pc' = "fetch"
                /\ result' = "running"
           ELSE /\ pc' = "idle"
                /\ result' = "exception"
                /\ UNCHANGED <<data_exists, fs, cwd, runsOn>>
    /\ UNCHANGED <<readme, derived>>

\* get_current_comic returns: its locals are gone, main() prints the outcome
Return(value) ==
    /\ pc' = "idle"
    /\ result' = value
    /\ soup' = NoSoup
    /\ image_data' = NoImage

\* soup = fetch_webpage(QWANTZ_BASE_URL); if soup is None: return False
fetch_step ==
    /\ pc = "fetch"
    /\ \E page \in Pages, ok \in BOOLEAN :
        /\ steps' = Append(steps, [step |-> "fetch", ok |-> ok])
        /\ IF ok
           THEN soup' = page /\ pc' = "extract" /\ UNCHANGED <<result, image_data>>
           ELSE Return("failure")
    /\ UNCHANGED <<data_exists, fs, readme, cwd, comic_data, runs, runsOn,
                   summary, derived>>

\* comic_data = extract_comic_data(soup); if comic_data is None: return False
extract_step ==
    /\ pc = "extract"
    /\ comic_data' = extract_comic_data(soup)
    /\ steps' = Append(steps, [step |-> "extract", ok |-> comic_data'.ok])
    /\ IF comic_data'.ok
       THEN pc' = "download" /\ UNCHANGED <<result, soup, image_data>>
       ELSE Return("failure")
    /\ UNCHANGED <<data_exists, fs, readme, cwd, runs, runsOn, summary, derived>>

\* download_step without the return on a failed download
download_step_noreturn ==
    /\ pc = "download"
    /\ \E bytes \in ImageBytes, ok \in BOOLEAN :
        /\ steps' = Append(steps, [step |-> "download", ok |-> ok])
        /\ image_data' = IF ok THEN [ok |-> TRUE, bytes |-> bytes] ELSE NoImage
        /\ pc' = "save_image"
        /\ UNCHANGED <<result, soup>>
    /\ UNCHANGED <<data_exists, fs, readme, cwd, comic_data, runs, runsOn,
                   summary, derived>>

\* image_data = download_image(image_url); if image_data is None: return False
download_step ==
    /\ pc = "download"
    /\ \E bytes \in ImageBytes, ok \in BOOLEAN :
        /\ steps' = Append(steps, [step |-> "download", ok |-> ok])
        /\ IF ok
           THEN /\ image_data' = [ok |-> TRUE, bytes |-> bytes]
                /\ pc' = "save_image"
                /\ UNCHANGED <<result, soup>>
           ELSE Return("failure")
    /\ UNCHANGED <<data_exists, fs, readme, cwd, comic_data, runs, runsOn,
                   summary, derived>>

\* save_image_step without the return on a failed image write
save_image_step_noreturn ==
    /\ pc = "save_image"
    /\ \E io_ok \in BOOLEAN :
        LET path == image_path(comic_data.image_url)
            ok   == io_ok /\ PathWritable(path)
        IN  /\ steps' = Append(steps, [step |-> "save_image", ok |-> ok])
            /\ fs' = IF ok
                     THEN [fs EXCEPT ![cwd] =
                              WriteFile(@, path, ImageFile(image_data.bytes))]
                     ELSE fs
            /\ pc' = "save_metadata"
            /\ UNCHANGED <<result, soup, image_data>>
    /\ UNCHANGED <<data_exists, readme, cwd, comic_data, runs, runsOn, summary,
                   derived>>

\* if not save_image(image_data, image_path): return False
save_image_step ==
    /\ pc = "save_image"
    /\ \E io_ok \in BOOLEAN :
        LET path == image_path(comic_data.image_url)
            ok   == io_ok /\ PathWritable(path)
        IN  /\ steps' = Append(steps, [step |-> "save_image", ok |-> ok])
            /\ IF ok
               THEN /\ fs' = [fs EXCEPT ![cwd] =
                                 WriteFile(@, path, ImageFile(image_data.bytes))]
                    /\ pc' = "save_metadata"
                    /\ UNCHANGED <<result, soup, image_data>>
               ELSE Return("failure") /\ UNCHANGED fs
    /\ UNCHANGED <<data_exists, readme, cwd, comic_data, runs, runsOn, summary,
                   derived>>

\* save_metadata_step opening image_path instead of metadata_path
save_metadata_step_wrongpath ==
    /\ pc = "save_metadata"
    /\ \E io_ok \in BOOLEAN :
        LET path == image_path(comic_data.image_url)
            ok   == io_ok /\ PathWritable(path)
        IN  /\ steps' = Append(steps, [step |-> "save_metadata", ok |-> ok])
            /\ IF ok
               THEN /\ fs' = [fs EXCEPT ![cwd] =
                                 WriteFile(@, path, TextFile(metadata_text(comic_data)))]
                    /\ Return("success")
               ELSE Return("failure") /\ UNCHANGED fs
    /\ UNCHANGED <<data_exists, readme, cwd, comic_data, runs, runsOn, summary,
                   derived>>

\* the metadata write of get_current_comic, and its two returns
save_metadata_step ==
    /\ pc = "save_metadata"
    /\ \E io_ok \in BOOLEAN :
        LET path == metadata_path(comic_data.image_url)
            ok   == io_ok /\ PathWritable(path)
        IN  /\ steps' = Append(steps, [step |-> "save_metadata", ok |-> ok])
            /\ IF ok
               THEN /\ fs' = [fs EXCEPT ![cwd] =
                                 WriteFile(@, path, TextFile(metadata_text(comic_data)))]
                    /\ Return("success")
               ELSE Return("failure") /\ UNCHANGED fs
    /\ UNCHANGED <<data_exists, readme, cwd, comic_data, runs, runsOn, summary,
                   derived>>

-----------------------------------------------------------------------------
(* update_readme.py *)

\* the code point of a character of a date directory's name
Ord(c) ==
    CASE c = "-" -> 45 [] c = "0" -> 48 [] c = "1" -> 49 [] c = "2" -> 50
      [] c = "3" -> 51 [] c = "4" -> 52 [] c = "5" -> 53 [] c = "6" -> 54
      [] c = "7" -> 55 [] c = "8" -> 56 [] c = "9" -> 57

\* a < b for Python str: at the first difference, or a a proper prefix of b
StrLess(a, b) ==
    \E i \in 1..(Len(a) + 1) :
        /\ i <= Len(b)
        /\ \A j \in 1..(i - 1) : a[j] = b[j]
        /\ (i = Len(a) + 1 \/ Ord(a[i]) < Ord(b[i]))

\* sorted(names, reverse=True)
RECURSIVE SortedReverse(_)
SortedReverse(S) ==
    IF S = {} THEN <<>>
    ELSE LET m == CHOOSE x \in S : \A y \in S : y = x \/ StrLess(y, x)
         IN  <<m>> \o SortedReverse(S \ {m})

\* date_dirs = sorted([d for d in os.listdir(data_dir) if isdir], reverse=True)
date_dirs(f) == SortedReverse(DOMAIN f)

\* most_recent_date taken from the wrong end of the sorted list
most_recent_date_last(f) == date_dirs(f)[Len(date_dirs(f))]

\* most_recent_date = date_dirs[0]
most_recent_date(f) == date_dirs(f)[1]

PNG_SUFFIX == <<".", "p", "n", "g">>

\* glob.glob(os.path.join(most_recent_dir, '*.png')): '*' matches no leading dot
png_files(dir) ==
    {name \in DOMAIN dir : EndsWith(name, PNG_SUFFIX) /\ name[1] # "."}

\* Path(image_path).stem
Stem(name) ==
    IF 1 < LastIndexOf(name, ".") /\ LastIndexOf(name, ".") < Len(name)
    THEN SubSeq(name, 1, LastIndexOf(name, ".") - 1)
    ELSE name

NO_TITLE ==
    <<"N", "o", " ", "t", "i", "t", "l", "e", " ", "a", "v", "a", "i", "l",
      "a", "b", "l", "e">>

\* for line in f: if line.startswith('Title:'):
\*     metadata_title = line.replace('Title:', '').strip(); break
RECURSIVE scan_title(_)
scan_title(lines) ==
    IF lines = <<>> THEN NO_TITLE
    ELSE IF StartsWith(Head(lines), TITLE_MARKER)
         THEN Strip(Replace(Head(lines), TITLE_MARKER, <<>>))
         ELSE scan_title(Tail(lines))

\* metadata_title of get_most_recent_comic; reading image bytes as UTF-8 text
\* raises UnicodeDecodeError, which is not a title
metadata_title(dir, comic_filename) ==
    IF comic_filename \o METADATA_SUFFIX \in DOMAIN dir
    THEN scan_title(Lines(dir[comic_filename \o METADATA_SUFFIX].data))
    ELSE NO_TITLE

DATA_PREFIX == <<"d", "a", "t", "a", "/">>

\* os.path.relpath(image_path, project_root).replace(' ', '%20')
rel_image_path(date, name) ==
    Replace(DATA_PREFIX \o date \o <<"/">> \o name, <<" ">>, <<"%", "2", "0">>)

\* what get_most_recent_comic returns: None, the tuple, or a raised exception
NotFound ==
    [kind |-> "none", date |-> <<>>, filename |-> <<>>, image_path |-> <<>>,
     title |-> <<>>]

Raised ==
    [kind |-> "exception", date |-> <<>>, filename |-> <<>>,
     image_path |-> <<>>, title |-> <<>>]

\* the outcome for image_path = png_files[0] being `name`
comic_info(dir, date, name) ==
    IF Stem(name) \o METADATA_SUFFIX \in DOMAIN dir
       /\ dir[Stem(name) \o METADATA_SUFFIX].kind = "image"
    THEN Raised
    ELSE [kind |-> "found", date |-> date, filename |-> Stem(name),
          image_path |-> rel_image_path(date, name),
          title |-> metadata_title(dir, Stem(name))]

\* get_most_recent_comic(): every outcome it may have on data directory f
\* (glob lists the directory in arbitrary order, so png_files[0] is any match)
get_most_recent_comic(exists, f) ==
    IF ~exists THEN {NotFound}
    ELSE IF DOMAIN f = {} THEN {NotFound}
    ELSE IF png_files(f[most_recent_date(f)]) = {} THEN {NotFound}
    ELSE {comic_info(f[most_recent_date(f)], most_recent_date(f), name) :
              name \in png_files(f[most_recent_date(f)])}

NoReadme ==
    [exists |-> FALSE, date |-> <<>>, filename |-> <<>>, image_path |-> <<>>,
     title |-> <<>>]

\* a README.md left by an earlier regeneration
OldReadme ==
    [exists |-> TRUE, date |-> <<"2", "0", "2", "3", "-", "1", "2", "-", "3", "0">>,
     filename |-> <<"o", "l", "d">>,
     image_path |-> <<"d", "a", "t", "a", "/", "o", "l", "d", ".", "p", "n", "g">>,
     title |-> <<"O", "l", "d">>]

\* readme_content: the template's four interpolated fields
readme_content(info) ==
    [exists |-> TRUE, date |-> info.date, filename |-> info.filename,
     image_path |-> info.image_path, title |-> info.title]

\* update_readme without the return on None: it renders the empty result
update_readme_noreturn ==
    /\ pc = "idle"
    /\ \E info \in get_most_recent_comic(data_exists, fs), io_ok \in BOOLEAN :
        IF info.kind = "none"
        THEN summary' = "notfound" /\ readme' = readme_content(info)
        ELSE IF info.kind = "exception"
        THEN summary' = "exception" /\ UNCHANGED readme
        ELSE IF io_ok
        THEN summary' = "written" /\ readme' = readme_content(info)
        ELSE summary' = "exception" /\ UNCHANGED readme
    /\ UNCHANGED <<data_exists, fs, pc, cwd, soup, comic_data, image_data,
                   result, steps, runs, runsOn, derived>>

\* update_readme(): one call; open(readme_path, 'w') may raise
update_readme ==
    /\ pc = "idle"
    /\ \E info \in get_most_recent_comic(data_exists, fs), io_ok \in BOOLEAN :
        IF info.kind = "none"
        THEN summary' = "notfound" /\ UNCHANGED readme
        ELSE IF info.kind = "exception"
        THEN summary' = "exception" /\ UNCHANGED readme
        ELSE IF io_ok
        THEN summary' = "written" /\ readme' = readme_content(info)
        ELSE summary' = "exception" /\ UNCHANGED readme
    /\ UNCHANGED <<data_exists, fs, pc, cwd, soup, comic_data, image_data,
                   result, steps, runs, runsOn, derived>>

-----------------------------------------------------------------------------
(* The program: acquisition runs and summary regenerations, one at a time *)

NoNames ==
    [done |-> FALSE, base |-> <<>>, extension |-> <<>>, image |-> <<>>,
     metadata |-> <<>>]

\* a fresh checkout: no data directory yet, the README.md of the repository
Init ==
    /\ data_exists = FALSE
    /\ fs = <<>>
    /\ readme = OldReadme
    /\ pc = "idle"
    /\ cwd = <<>>
    /\ soup = NoSoup
    /\ comic_data = NoComic
    /\ image_data = NoImage
    /\ result = "none"
    /\ steps = <<>>
    /\ runs = 0
    /\ runsOn = <<>>
    /\ summary = "none"
    /\ derived = NoNames

Next ==
    \/ main_begin
    \/ fetch_step
    \/ extract_step
    \/ download_step
    \/ save_image_step
    \/ save_metadata_step
    \/ update_readme

Spec == Init /\ [][Next]_vars

-----------------------------------------------------------------------------
(* Name derivation alone, over every short src attribute *)

SrcAlphabet == {"a", ".", "/", "?", "%"}

SRC_CACHE ==
    <<"c", "o", "m", "i", "c", "s", "/", "f", "o", "o", ".", "p", "n", "g",
      "?", "c", "a", "c", "h", "e", "=", "1">>

SrcStrings ==
    UNION {[1..n -> SrcAlphabet] : n \in 1..MaxSrcLen}
    \cup {SRC_PNG, SRC_JPG, SRC_SPACE, SRC_NOEXT, SRC_CACHE}

InitDerive ==
    /\ data_exists = FALSE
    /\ fs = <<>>
    /\ readme = NoReadme
    /\ pc = "named"
    /\ cwd = <<>>
    /\ soup = NoSoup
    /\ comic_data \in {[ok |-> TRUE, image_url |-> QWANTZ_BASE_URL \o s,
                        title |-> UNKNOWN_TITLE] : s \in SrcStrings}
    /\ image_data = NoImage
    /\ result = "none"
    /\ steps = <<>>
    /\ runs = 0
    /\ runsOn = <<>>
    /\ summary = "none"
    /\ derived = NoNames

\* get_current_comic: the names it derives from comic_data['image_url']
derive_names ==
    /\ pc = "named"
    /\ ~derived.done
    /\ derived' = [done |-> TRUE,
                   base |-> base_filename(comic_data.image_url),
                   extension |-> get_file_extension(comic_data.image_url),
                   image |-> image_path(comic_data.image_url),
                   metadata |-> metadata_path(comic_data.image_url)]
    /\ UNCHANGED <<data_exists, fs, readme, pc, cwd, soup, comic_data,
                   image_data, result, steps, runs, runsOn, summary>>

NextDerive == derive_names

SpecDerive == InitDerive /\ [][NextDerive]_vars

-----------------------------------------------------------------------------
(* Summary regeneration alone, over the archives acquisition runs leave *)

\* the records of the archived runs
ArchivedRecords ==
    {[ok |-> TRUE, image_url |-> QWANTZ_BASE_URL \o s, title |-> t] :
        s \in {SRC_PNG, SRC_JPG, SRC_SPACE},
        t \in {UNKNOWN_TITLE, TITLE_PLAIN, TITLE_MARKED, TITLE_PADDED}}

\* a date directory after save_image succeeded for record cd
ImageArchived(dir, cd) ==
    WriteFile(dir, image_path(cd.image_url), ImageFile(<<"PNG", "1">>))

\* a date directory after a successful get_current_comic for record cd
Archived(dir, cd) ==
    WriteFile(ImageArchived(dir, cd), metadata_path(cd.image_url),
              TextFile(metadata_text(cd)))

\* the record of a second run on a date
RerunRecord ==
    [ok |-> TRUE, image_url |-> QWANTZ_BASE_URL \o SRC_SPACE,
     title |-> TITLE_PLAIN]

\* the date directories runs leave: empty (the run failed before the image
\* write), image only (the metadata write failed), complete, or written twice
Entries ==
    {<<>>}
    \cup {ImageArchived(<<>>, cd) : cd \in ArchivedRecords}
    \cup {Archived(<<>>, cd) : cd \in ArchivedRecords}
    \cup {Archived(Archived(<<>>, cd), RerunRecord) :
              cd \in {c \in ArchivedRecords : c.title = UNKNOWN_TITLE}}

DirNames == {strftime(dt) : dt \in Dates}

InitResolve ==
    /\ fs \in UNION {[D -> Entries] : D \in SUBSET DirNames}
    /\ data_exists \in {e \in BOOLEAN : DOMAIN fs # {} => e}
    /\ readme \in {NoReadme, OldReadme}
    /\ pc = "idle"
    /\ cwd = <<>>
    /\ soup = NoSoup
    /\ comic_data = NoComic
    /\ image_data = NoImage
    /\ result = "none"
    /\ steps = <<>>
    /\ runs = 0
    /\ runsOn = [d \in DOMAIN fs |-> 1]
    /\ summary = "none"
    /\ derived = NoNames

NextResolve == update_readme

SpecResolve == InitResolve /\ [][NextResolve]_vars

-----------------------------------------------------------------------------
(* Properties *)

STEP_ORDER == <<"fetch", "extract", "download", "save_image", "save_metadata">>

\* C1: the steps of get_current_comic run in the order fetch, extract,
\* download, image write, metadata write; no step runs after a failed one, a
\* failed step ends the run with failure, and the run returns success only
\* when all five steps succeeded.
C1_ShortCircuit ==
    /\ Len(steps) <= Len(STEP_ORDER)
    /\ \A i \in 1..Len(steps) : steps[i].step = STEP_ORDER[i]
    /\ \A i \in 1..(Len(steps) - 1) : steps[i].ok
    /\ (steps # <<>> /\ ~steps[Len(steps)].ok) => (pc = "idle" /\ result = "failure")
    /\ result = "failure" => (steps # <<>> /\ ~steps[Len(steps)].ok)
    /\ result = "success" <=>
           (Len(steps) = Len(STEP_ORDER) /\ \A i \in 1..Len(steps) : steps[i].ok)

\* a run whose download failed: it ended there, with failure
C1_Witness ==
    /\ Len(steps) = 3
    /\ steps[1].ok /\ steps[2].ok /\ ~steps[3].ok
    /\ result = "failure"

\* C2: in a run that started from an empty date directory, the metadata file
\* <base>_metadata.txt exists only if the image file <base>.<ext> exists; a
\* failed image write leaves no metadata file.
C2_NoOrphanMetadata ==
    (result \in {"running", "success", "failure"} /\ runsOn[cwd] = 1) =>
        IF comic_data.ok
        THEN metadata_path(comic_data.image_url) \in DOMAIN fs[cwd]
                 => image_path(comic_data.image_url) \in DOMAIN fs[cwd]
        ELSE DOMAIN fs[cwd] = {}

\* a first run on its date whose image write failed: the directory is empty
C2_Witness ==
    /\ result = "failure"
    /\ Len(steps) = 4 /\ ~steps[4].ok
    /\ runsOn[cwd] = 1
    /\ DOMAIN fs[cwd] = {}

\* whether sub occurs in s
Contains(s, sub) ==
    \E i \in 1..(Len(s) + 1) :
        i + Len(sub) - 1 <= Len(s) /\ SubSeq(s, i, i + Len(sub) - 1) = sub

\* C3: from an empty archive, after a successful acquisition run a summary
\* regeneration resolves the run's entry and writes a document with today's
\* date, the reference to the archived image file and the extracted title.
C3_EndToEnd ==
    (runs = 1 /\ result = "success" /\ summary # "none") =>
        /\ summary # "notfound"
        /\ summary = "written" =>
            /\ readme.date = cwd
            /\ readme.image_path =
                   Replace(DATA_PREFIX \o cwd \o <<"/">>
                               \o image_path(comic_data.image_url),
                           <<" ">>, <<"%", "2", "0">>)
            /\ Contains(readme.title, Strip(comic_data.title))

\* the date a directory name stands for
DateOf(name) == CHOOSE dt \in Dates : strftime(dt) = name

\* the name of the chronologically latest date directory
Latest(f) ==
    CHOOSE n \in DOMAIN f :
        \A m \in DOMAIN f : m = n \/ Earlier(DateOf(m), DateOf(n))

\* the archive with every directory but the latest removed
OnlyLatest(f) == [n \in {Latest(f)} |-> f[n]]

\* C4: get_most_recent_comic takes the chronologically latest YYYY-MM-DD
\* directory as the entry's date and decides its result from that directory
\* alone; with no subdirectory it returns None.
C4_LatestSelected ==
    summary # "none" =>
        IF DOMAIN fs = {} THEN summary = "notfound"
        ELSE /\ summary = "written" =>
                    /\ readme.date = Latest(fs)
                    /\ \E i \in get_most_recent_comic(TRUE, OnlyLatest(fs)) :
                           i.kind = "found" /\ readme = readme_content(i)
             /\ summary = "notfound" <=>
                    get_most_recent_comic(TRUE, OnlyLatest(fs)) = {NotFound}

\* a summary written from an archive of three date directories
C4_Witness ==
    /\ summary = "written"
    /\ Cardinality(DOMAIN fs) = 3
    /\ readme.date = strftime([y |-> 2024, m |-> 1, d |-> 10])

\* C5: when resolution returns None, update_readme leaves README.md as it was.
C5_NotFoundLeavesReadme == [][summary' = "notfound" => readme' = readme]_vars

\* an update_readme that found date directories but no image in the latest
C5_Witness ==
    /\ summary = "notfound"
    /\ DOMAIN fs # {}
    /\ readme = OldReadme

\* C6: neither entry point ends with an escaping exception.
C6_NoEscapingException == result # "exception" /\ summary # "exception"

\* the URL's last path segment
LastSegment(url) == SplitLast(url, "/")

HasDot(s) == "." \in {s[i] : i \in 1..Len(s)}

C8_WrittenNamesSanitized ==
    \A i \in 1..Len(steps) :
        (steps[i].step \in {"save_image", "save_metadata"} /\ steps[i].ok) =>
            base_filename(comic_data.image_url)
                = sanitize_filename(base_filename(comic_data.image_url))

\* the image files of a date directory
Images(dir) == {name \in DOMAIN dir : dir[name].kind = "image"}

\* the files of directory d are in f2 what they are in f
FilesKept(f, f2, d) ==
    d \in DOMAIN f =>
        \A name \in DOMAIN f[d] : name \in DOMAIN f2[d] /\ f2[d][name] = f[d][name]

\* C9 as stated: after any runs, a date directory that holds an entry holds
\* exactly one image file, and no file is modified once created.
C9_OneImageNeverModified ==
    [][\A d \in DOMAIN fs' :
           /\ Images(fs'[d]) # {} => Cardinality(Images(fs'[d])) = 1
           /\ FilesKept(fs, fs', d)]_vars

\* C9 amended: the same for the date directories in which one run was started.
C9_OneImagePerSingleRun ==
    [][\A d \in DOMAIN fs' :
           runsOn'[d] <= 1 =>
               /\ Images(fs'[d]) # {} => Cardinality(Images(fs'[d])) = 1
               /\ FilesKept(fs, fs', d)]_vars

\* two runs on two dates, each directory with its one image and its metadata
C9_Witness ==
    /\ runs = 2
    /\ result = "success"
    /\ Cardinality(DOMAIN fs) = 2
    /\ \A d \in DOMAIN fs :
           runsOn[d] = 1 /\ Cardinality(Images(fs[d])) = 1
           /\ Cardinality(DOMAIN fs[d]) = 2

\* the first line that starts with the Title: marker, <<>> when there is none
RECURSIVE FirstTitleLine(_)
FirstTitleLine(lines) ==
    IF lines = <<>> THEN <<>>
    ELSE IF StartsWith(Head(lines), TITLE_MARKER) THEN Head(lines)
         ELSE FirstTitleLine(Tail(lines))

\* C10: the resolved title is the rest of the first Title: line of the
\* selected image's metadata file, trimmed (the archived title, trimmed), and
\* 'No title available' when the file or the line is missing.
C10_TitleResolution ==
    summary = "written" =>
        LET dir  == fs[readme.date]
            meta == readme.filename \o METADATA_SUFFIX
            line == IF meta \in DOMAIN dir
                    THEN FirstTitleLine(Lines(dir[meta].data)) ELSE <<>>
        IN  /\ line # <<>> =>
                   readme.title = Strip(SubSeq(line, Len(TITLE_MARKER) + 1, Len(line)))
            /\ line = <<>> => readme.title = NO_TITLE
            /\ \A cd \in ArchivedRecords :
                   (dir = Archived(<<>>, cd) /\ readme.filename = base_filename(cd.image_url))
                       => readme.title = Strip(cd.title)

====
